---- MODULE Spec2Model ----
(***************************************************************************)
(* Model of the concurrent pipelines of rust-magic-patterns.               *)
(*                                                                         *)
(*  - async-pipeline-pattern/src/main.rs: async_pipeline_example, three    *)
(*    spawned stage tasks h1 (download), h2 (process, up to 4 concurrent   *)
(*    futures in a FuturesUnordered), h3 (save), wired by four bounded     *)
(*    tokio mpsc channels, fed and drained by the main task, joined with   *)
(*    try_join!.                                                           *)
(*  - rust-stream-visualized/src/main.rs: buffered_example and             *)
(*    unordered_example, a stream of futures run through buffered(3) /     *)
(*    buffer_unordered(3).                                                 *)
(*                                                                         *)
(* The worker functions of the repository (download_image, process_image,  *)
(* save_image) never fail.  A worker failure is modelled as the only       *)
(* failure Rust offers them, a panic inside the spawned task: the task's   *)
(* future is dropped (both channel ends it owns are dropped) and its       *)
(* JoinHandle later resolves to Err(JoinError).                            *)
(***************************************************************************)
EXTENDS Integers, Sequences, FiniteSets, TLC

\* Number of urls the source produces (32 in main.rs:34), scaled down.
NumUrls == 5

\* Capacity of each mpsc channel (100 in main.rs:36-39), scaled down.
Cap == 2

\* in_progress_len < 4 (main.rs:61): at most 4 images processed concurrently.
MaxInProgress == 4

\* stream::iter(0..10) (rust-stream-visualized/src/main.rs:19), scaled down.
StreamLen == 4

\* Largest buffered(n) / buffer_unordered(n) limit explored (3 in the source).
MaxLimit == 3

\* Longest slice given to SliceIterator::new (5 in lib.rs:19).
MaxLen == 5

\* The slices hold the values 1..MaxVal (1..5 in lib.rs:19).
MaxVal == 5

\* const N (visual-journey-through-async-rust main.rs:11, 500 there): each
\* producer sends the samples 1..N-1.
N == 4

\* Most producers of one sample-collection function (2, 3 and 7 in the
\* source).
MaxProducers == 2

\* Largest Context::id explored (33 in axum-style-magic-function-param
\* main.rs:22).
MaxId == 3

\* Most calls of trigger in one run (4 in main.rs:24-27).
MaxTriggers == 4

Stages == 1..3

VARIABLES
    mainpc,        \* position of async_pipeline_example's own task
    sent,          \* number of urls the source loop has sent
    received,      \* urls printed by the drain loop ("done with {url}")
    url_ch,        \* buffers of the four mpsc channels
    image_ch,
    processed_ch,
    output_ch,
    h1pc, h1item,  \* download stage
    h2pc,          \* process stage
    running,       \*   futures pushed and not yet finished
    ready,         \*   finished futures in the order they finished
    h2item,        \*   the processed image being sent downstream
    h3pc, h3item,  \* save stage
    result,        \* per stage task: "none" (running), "ok", "panic"
    handle,        \* per stage task: its JoinHandle is ready
    joinSkip,      \* try_join!: skip_next_time
    joinPolled,    \* try_join! has been polled and returned Pending
    joinWoken,     \* a JoinHandle woke the main task since the last poll
    joinResult,    \* <<"pending">>, <<"ok">> or <<"err", stage of the JoinError>>
    admitted,      \* history: urls each stage pulled from upstream
    sentBy,        \* history: urls each stage sent downstream
    finished,      \* history: urls of h2's futures in completion order
    smode,         \* stream example: "off", "ordered", "unordered"
    slimit,        \*   the n of buffered(n) / buffer_unordered(n)
    snext,         \*   next element of stream::iter(0..StreamLen)
    squeue,        \*   in-flight futures, in the order they were pulled
    sdone,         \*   in-flight futures that have finished
    sout,          \*   the values printed by the consumer loop
    sended,        \*   the consumer loop saw None
    journey,       \* sample-collection example, a record:
                   \*   producers: the number of produce_sin futures
                   \*   next: the i each producer's for loop is at
                   \*   finished: the producer's future is over, its
                   \*     clone of tx dropped
                   \*   tx: the function still holds its own tx
                   \*   chan: the unbounded channel
                   \*   samples: the Vec the receive loop fills
                   \*   pc: "off", "join_all", "recv" or "returned"
    magic,         \* magic-parameter example, a record:
                   \*   context: the Context given to trigger
                   \*   calls: history, the handlers called and their arguments
                   \*   out: what the handlers printed
    iter           \* iterator example, a record:
                   \*   chain: "off", or the iterator driven
                   \*   data: the slice behind the SliceIterator
                   \*   pos: SliceIterator::pos
                   \*   pred, fn: the closures given to filter and to map
                   \*   ret: history, what each call of next returned
                   \*   vec: the Vec that collect builds
                   \*   set: the HashSet that collect builds
                   \*   returned: collect has returned

pvars == <<mainpc, sent, received, url_ch, image_ch, processed_ch, output_ch,
           h1pc, h1item, h2pc, running, ready, h2item, h3pc, h3item,
           result, handle, joinSkip, joinPolled, joinWoken, joinResult,
           admitted, sentBy, finished>>

ivars == <<iter>>

mvars == <<magic>>

jvars == <<journey>>

svars == <<smode, slimit, snext, squeue, sdone, sout, sended>>

vars == <<pvars, svars, ivars, mvars, jvars>>

----------------------------------------------------------------------------
(* Worker functions of main.rs *)

\* format!("https://example.com/image/{}", i): the url is identified by i.
Urls == 0..(NumUrls - 1)

download_image(url) == [url |-> url, data |-> 0]

process_image(image) == [url |-> image.url, data |-> 1]

\* save_image returns (); h3 sends image.url.clone() downstream.
image_url(image) == image.url

----------------------------------------------------------------------------
(* Channel ends.  A spawned task owns its receiver and its sender; both are *)
(* dropped when the task's future is dropped (return, break or panic).      *)

Exited(s) == result[s] # "none"

\* Variant: the source forgets drop(url_sender); the sender lives until
\* the function returns.
UrlSenderDropped_NoDrop == mainpc \in {"done", "panicked"}

\* drop(url_sender) at main.rs:91, or main unwinding.
UrlSenderDropped == mainpc # "send"

\* Variant: output_receiver is kept alive (leaked) when the function ends.
OutputReceiverDropped_Leaked == FALSE

\* output_receiver lives until async_pipeline_example returns or unwinds.
OutputReceiverDropped == mainpc \in {"done", "panicked"}

\* Variant: a send that never waits for a permit.
CanSend_Unbounded(ch) == TRUE

\* mpsc::Sender::send: Ok when the receiver is alive and a permit is free.
CanSend(ch) == Len(ch) < Cap

InProgressLen == Cardinality(running) + Len(ready)

\* Variant: closing discards what is buffered, recv is None as soon as the
\* senders are gone.
RecvNone_Discard(ch, senderDropped) == senderDropped

\* Receiver::recv returns None: the buffer is empty and every sender is gone.
RecvNone(ch, senderDropped) == ch = <<>> /\ senderDropped

\* Variant: off by one in the admission guard.
CanAdmit_OffByOne == InProgressLen <= MaxInProgress

\* The select! precondition of the admitting branch (main.rs:61).
CanAdmit == InProgressLen < MaxInProgress

\* select! is biased: the admitting branch is polled first and wins when its
\* precondition holds and an image is buffered (main.rs:59-61).
FirstBranchReady == CanAdmit /\ image_ch # <<>>

\* Variant: break as soon as upstream is closed, whatever is in progress.
SelectElse_IgnoreInProgress == RecvNone(image_ch, Exited(1))

\* else => break (main.rs:70): both branches are disabled, recv() gave None
\* and nothing is in progress.
SelectElse == RecvNone(image_ch, Exited(1)) /\ InProgressLen = 0

\* Variant: the finished future jumps the queue.
Finish_Front(q, image) == <<process_image(image)>> \o q

\* A future of the FuturesUnordered finishes: it joins the ready queue last.
Finish(q, image) == Append(q, process_image(image))

\* Variant: futures.next() hands out the future that finished last.
NextReady_Newest(q) == q[Len(q)]

\* futures.next(): the future that finished first.
NextReady(q) == Head(q)

\* Variant: the Err of the send is unwrapped, as in the loop over the urls.
BreakOutcome_Unwrap == "panic"

\* `break` after a failed send: the async block runs to its end and the
\* task's JoinHandle is Ok(()).
BreakOutcome == "ok"

\* Variant: recv() hands out the value sent last.
Received_Newest(ch) == ch[Len(ch)]

\* recv() is Some(value): the value that has waited longest in the buffer.
Received(ch) == Head(ch)

\* Variant: a channel that hands out the newest value first.
Enqueue_Front(ch, item) == <<item>> \o ch

\* A successful send: the value joins the channel's FIFO buffer last.
Enqueue(ch, item) == Append(ch, item)

Range(q) == {q[i] : i \in 1..Len(q)}

Record(hist, s, url) == [hist EXCEPT ![s] = Append(@, url)]

----------------------------------------------------------------------------
(* Initial state: the four channels are created and the three tasks are    *)
(* spawned (main.rs:36-84); nothing has been sent.                         *)

\* A chain over data with the closures p and f, before the first call.
NewIter(c, data, p, f) ==
    [chain |-> c, data |-> data, pos |-> 0, pred |-> p, fn |-> f,
     ret |-> <<>>, vec |-> <<>>, set |-> {}, returned |-> FALSE]

\* A sample-collection function with P producers, before the first poll.
NewJourney(P, pc) ==
    [producers |-> P, next |-> [p \in 1..P |-> 1],
     finished |-> [p \in 1..P |-> FALSE], tx |-> TRUE,
     chan |-> <<>>, samples |-> <<>>, pc |-> pc]

\* No sample-collection function runs.
JourneyIdle == journey = NewJourney(0, "off")

\* No handler is triggered.
MagicIdle == magic = [context |-> [param |-> "", id |-> 0],
                      calls |-> <<>>, out |-> <<>>]

\* No iterator is driven.
IterIdle == iter = NewIter("off", <<>>, "even", "double")

StreamIdle ==
    /\ smode = "off"
    /\ slimit = 1
    /\ snext = 0
    /\ squeue = <<>>
    /\ sdone = <<>>
    /\ sout = <<>>
    /\ sended = FALSE

Init ==
    /\ mainpc = "send"
    /\ sent = 0
    /\ received = <<>>
    /\ url_ch = <<>>
    /\ image_ch = <<>>
    /\ processed_ch = <<>>
    /\ output_ch = <<>>
    /\ h1pc = "recv"
    /\ h1item = <<>>
    /\ h2pc = "select"
    /\ running = {}
    /\ ready = <<>>
    /\ h2item = <<>>
    /\ h3pc = "recv"
    /\ h3item = <<>>
    /\ result = [s \in Stages |-> "none"]
    /\ handle = [s \in Stages |-> FALSE]
    /\ joinSkip = 0
    /\ joinPolled = FALSE
    /\ joinWoken = FALSE
    /\ joinResult = <<"pending">>
    /\ admitted = [s \in Stages |-> <<>>]
    /\ sentBy = [s \in Stages |-> <<>>]
    /\ finished = <<>>
    /\ StreamIdle
    /\ IterIdle
    /\ MagicIdle
    /\ JourneyIdle

----------------------------------------------------------------------------
(* The main task: source loop, drop of the sender, drain loop, try_join!.  *)

mainvars == <<mainpc, sent, received, joinSkip, joinPolled, joinWoken, joinResult>>
h1vars == <<h1pc, h1item>>
h2vars == <<h2pc, running, ready, h2item>>
h3vars == <<h3pc, h3item>>
joinvars == <<joinSkip, joinPolled, joinWoken, joinResult>>

\* url_sender.send(url).await.unwrap() with a live receiver and a free slot.
MainSend ==
    /\ mainpc = "send"
    /\ sent < NumUrls
    /\ ~Exited(1)
    /\ CanSend(url_ch)
    /\ url_ch' = Enqueue(url_ch, sent)
    /\ sent' = sent + 1
    /\ UNCHANGED <<mainpc, received, image_ch, processed_ch, output_ch,
                   h1vars, h2vars, h3vars, result, handle, joinvars,
                   admitted, sentBy, finished, svars, ivars, mvars, jvars>>

\* url_sender.send(url).await is Err once h1 dropped url_receiver; unwrap()
\* panics and async_pipeline_example unwinds, dropping url_sender and
\* output_receiver.
MainSendPanic ==
    /\ mainpc = "send"
    /\ sent < NumUrls
    /\ Exited(1)
    /\ mainpc' = "panicked"
    /\ output_ch' = <<>>
    /\ UNCHANGED <<sent, received, url_ch, image_ch, processed_ch,
                   h1vars, h2vars, h3vars, result, handle, joinvars,
                   admitted, sentBy, finished, svars, ivars, mvars, jvars>>

\* The for loop is over: drop(url_sender).
MainDropSender ==
    /\ mainpc = "send"
    /\ sent = NumUrls
    /\ mainpc' = "drain"
    /\ UNCHANGED <<sent, received, url_ch, image_ch, processed_ch, output_ch,
                   h1vars, h2vars, h3vars, result, handle, joinvars,
                   admitted, sentBy, finished, svars, ivars, mvars, jvars>>

\* while let Some(url) = output_receiver.recv().await
MainRecv ==
    /\ mainpc = "drain"
    /\ output_ch # <<>>
    /\ received' = Append(received, Received(output_ch))
    /\ output_ch' = Tail(output_ch)
    /\ UNCHANGED <<mainpc, sent, url_ch, image_ch, processed_ch,
                   h1vars, h2vars, h3vars, result, handle, joinvars,
                   admitted, sentBy, finished, svars, ivars, mvars, jvars>>

\* recv() returns None: the drain loop ends and try_join! is awaited.
MainRecvNone ==
    /\ mainpc = "drain"
    /\ RecvNone(output_ch, Exited(3))
    /\ mainpc' = "join"
    /\ UNCHANGED <<sent, received, url_ch, image_ch, processed_ch, output_ch,
                   h1vars, h2vars, h3vars, result, handle, joinvars,
                   admitted, sentBy, finished, svars, ivars, mvars, jvars>>

----------------------------------------------------------------------------
(* h1, the download stage (main.rs:41-49).                                 *)

\* Some(url) = url_receiver.recv().await; download_image(url) starts.
H1Recv ==
    /\ h1pc = "recv"
    /\ url_ch # <<>>
    /\ h1item' = <<Received(url_ch)>>
    /\ url_ch' = Tail(url_ch)
    /\ h1pc' = "busy"
    /\ admitted' = Record(admitted, 1, Received(url_ch))
    /\ UNCHANGED <<mainvars, image_ch, processed_ch, output_ch, h2vars, h3vars,
                   result, handle, sentBy, finished, svars, ivars, mvars, jvars>>

\* recv() is None: the while let loop ends and the task returns.
H1RecvNone ==
    /\ h1pc = "recv"
    /\ RecvNone(url_ch, UrlSenderDropped)
    /\ h1pc' = "exited"
    /\ result' = [result EXCEPT ![1] = "ok"]
    /\ UNCHANGED <<mainvars, url_ch, image_ch, processed_ch, output_ch, h1item,
                   h2vars, h3vars, handle, admitted, sentBy, finished, svars, ivars, mvars, jvars>>

\* download_image returned and image_sender.send(image).await is Ok.
H1Send ==
    /\ h1pc = "busy"
    /\ ~Exited(2)
    /\ CanSend(image_ch)
    /\ image_ch' = Enqueue(image_ch, download_image(h1item[1]))
    /\ sentBy' = Record(sentBy, 1, h1item[1])
    /\ h1item' = <<>>
    /\ h1pc' = "recv"
    /\ UNCHANGED <<mainvars, url_ch, processed_ch, output_ch, h2vars, h3vars,
                   result, handle, admitted, finished, svars, ivars, mvars, jvars>>

\* send is Err (h2 dropped image_receiver): "failed to send output", break.
\* The task returns normally; url_receiver is dropped with what it buffers.
H1SendFailed ==
    /\ h1pc = "busy"
    /\ Exited(2)
    /\ h1item' = <<>>
    /\ h1pc' = "exited"
    /\ result' = [result EXCEPT ![1] = BreakOutcome]
    /\ url_ch' = <<>>
    /\ UNCHANGED <<mainvars, image_ch, processed_ch, output_ch, h2vars, h3vars,
                   handle, admitted, sentBy, finished, svars, ivars, mvars, jvars>>

\* The worker panics inside download_image: the task's future is dropped.
H1Panic ==
    /\ h1pc = "busy"
    /\ h1item' = <<>>
    /\ h1pc' = "exited"
    /\ result' = [result EXCEPT ![1] = "panic"]
    /\ url_ch' = <<>>
    /\ UNCHANGED <<mainvars, image_ch, processed_ch, output_ch, h2vars, h3vars,
                   handle, admitted, sentBy, finished, svars, ivars, mvars, jvars>>

----------------------------------------------------------------------------
(* h2, the process stage (main.rs:51-73): a biased select! over the        *)
(* upstream receiver and a FuturesUnordered.                               *)

\* First branch: Some(image) = image_receiver.recv(), if in_progress_len < 4.
\* It is polled first (biased), so it wins whenever an image is buffered.
H2Admit ==
    /\ h2pc = "select"
    /\ CanAdmit
    /\ image_ch # <<>>
    /\ running' = running \cup {Received(image_ch)}
    /\ image_ch' = Tail(image_ch)
    /\ admitted' = Record(admitted, 2, Received(image_ch).url)
    /\ UNCHANGED <<mainvars, url_ch, processed_ch, output_ch, h1vars,
                   h2pc, ready, h2item, h3vars, result, handle,
                   sentBy, finished, svars, ivars, mvars, jvars>>

\* The sleep of one process_image future elapses: the future is finished.
H2Finish ==
    /\ h2pc \in {"select", "sending"}
    /\ \E image \in running :
          /\ running' = running \ {image}
          /\ ready' = Finish(ready, image)
          /\ finished' = Append(finished, image.url)
    /\ UNCHANGED <<mainvars, url_ch, image_ch, processed_ch, output_ch, h1vars,
                   h2pc, h2item, h3vars, result, handle,
                   admitted, sentBy, svars, ivars, mvars, jvars>>

\* Second branch: Some(processed_image) = futures.next(), if
\* in_progress_len > 0; taken when the first branch is not ready.
H2Next ==
    /\ h2pc = "select"
    /\ ~FirstBranchReady
    /\ InProgressLen > 0
    /\ ready # <<>>
    /\ h2item' = <<NextReady(ready)>>
    /\ ready' = Tail(ready)
    /\ h2pc' = "sending"
    /\ UNCHANGED <<mainvars, url_ch, image_ch, processed_ch, output_ch, h1vars,
                   running, h3vars, result, handle,
                   admitted, sentBy, finished, svars, ivars, mvars, jvars>>

\* processed_sender.send(processed_image).await is Ok.
H2Send ==
    /\ h2pc = "sending"
    /\ ~Exited(3)
    /\ CanSend(processed_ch)
    /\ processed_ch' = Enqueue(processed_ch, h2item[1])
    /\ sentBy' = Record(sentBy, 2, h2item[1].url)
    /\ h2item' = <<>>
    /\ h2pc' = "select"
    /\ UNCHANGED <<mainvars, url_ch, image_ch, output_ch, h1vars,
                   running, ready, h3vars, result, handle,
                   admitted, finished, svars, ivars, mvars, jvars>>

\* send is Err (h3 dropped processed_receiver): break.  The futures still
\* in the FuturesUnordered and the buffered images are dropped with the task.
H2SendFailed ==
    /\ h2pc = "sending"
    /\ Exited(3)
    /\ h2item' = <<>>
    /\ running' = {}
    /\ ready' = <<>>
    /\ h2pc' = "exited"
    /\ result' = [result EXCEPT ![2] = BreakOutcome]
    /\ image_ch' = <<>>
    /\ UNCHANGED <<mainvars, url_ch, processed_ch, output_ch, h1vars, h3vars,
                   handle, admitted, sentBy, finished, svars, ivars, mvars, jvars>>

\* else => break: recv() is None and no future is in progress.
H2Else ==
    /\ h2pc = "select"
    /\ SelectElse
    /\ h2pc' = "exited"
    /\ running' = {}
    /\ ready' = <<>>
    /\ result' = [result EXCEPT ![2] = "ok"]
    /\ UNCHANGED <<mainvars, url_ch, image_ch, processed_ch, output_ch, h1vars,
                   h2item, h3vars, handle,
                   admitted, sentBy, finished, svars, ivars, mvars, jvars>>

\* A process_image future panics while select! polls the FuturesUnordered:
\* the whole h2 task unwinds.
H2Panic ==
    /\ h2pc = "select"
    /\ running # {}
    /\ running' = {}
    /\ ready' = <<>>
    /\ h2pc' = "exited"
    /\ result' = [result EXCEPT ![2] = "panic"]
    /\ image_ch' = <<>>
    /\ UNCHANGED <<mainvars, url_ch, processed_ch, output_ch, h1vars, h2item,
                   h3vars, handle, admitted, sentBy, finished, svars, ivars, mvars, jvars>>

----------------------------------------------------------------------------
(* h3, the save stage (main.rs:75-84).                                     *)

\* Some(image) = processed_receiver.recv().await; save_image(image) starts.
H3Recv ==
    /\ h3pc = "recv"
    /\ processed_ch # <<>>
    /\ h3item' = <<Received(processed_ch)>>
    /\ processed_ch' = Tail(processed_ch)
    /\ h3pc' = "busy"
    /\ admitted' = Record(admitted, 3, Received(processed_ch).url)
    /\ UNCHANGED <<mainvars, url_ch, image_ch, output_ch, h1vars, h2vars,
                   result, handle, sentBy, finished, svars, ivars, mvars, jvars>>

\* recv() is None: the while let loop ends and the task returns.
H3RecvNone ==
    /\ h3pc = "recv"
    /\ RecvNone(processed_ch, Exited(2))
    /\ h3pc' = "exited"
    /\ result' = [result EXCEPT ![3] = "ok"]
    /\ UNCHANGED <<mainvars, url_ch, image_ch, processed_ch, output_ch, h1vars,
                   h2vars, h3item, handle, admitted, sentBy, finished, svars, ivars, mvars, jvars>>

\* save_image returned and output_sender.send(image_url).await is Ok.
H3Send ==
    /\ h3pc = "busy"
    /\ ~OutputReceiverDropped
    /\ CanSend(output_ch)
    /\ output_ch' = Enqueue(output_ch, image_url(h3item[1]))
    /\ sentBy' = Record(sentBy, 3, h3item[1].url)
    /\ h3item' = <<>>
    /\ h3pc' = "recv"
    /\ UNCHANGED <<mainvars, url_ch, image_ch, processed_ch, h1vars, h2vars,
                   result, handle, admitted, finished, svars, ivars, mvars, jvars>>

\* send is Err (output_receiver was dropped): break.
H3SendFailed ==
    /\ h3pc = "busy"
    /\ OutputReceiverDropped
    /\ h3item' = <<>>
    /\ h3pc' = "exited"
    /\ result' = [result EXCEPT ![3] = BreakOutcome]
    /\ processed_ch' = <<>>
    /\ UNCHANGED <<mainvars, url_ch, image_ch, output_ch, h1vars, h2vars,
                   handle, admitted, sentBy, finished, svars, ivars, mvars, jvars>>

\* The worker panics inside save_image: the task's future is dropped.
H3Panic ==
    /\ h3pc = "busy"
    /\ h3item' = <<>>
    /\ h3pc' = "exited"
    /\ result' = [result EXCEPT ![3] = "panic"]
    /\ processed_ch' = <<>>
    /\ UNCHANGED <<mainvars, url_ch, image_ch, output_ch, h1vars, h2vars,
                   handle, admitted, sentBy, finished, svars, ivars, mvars, jvars>>

----------------------------------------------------------------------------
(* Completion: the JoinHandles and try_join!(h1, h2, h3).unwrap()          *)
(* (main.rs:97).                                                           *)

\* After a task's future is dropped, tokio stores the outcome and wakes
\* whoever awaits the JoinHandle.
StageComplete(s) ==
    /\ Exited(s)
    /\ ~handle[s]
    /\ handle' = [handle EXCEPT ![s] = TRUE]
    /\ joinWoken' = IF mainpc = "join" /\ joinPolled THEN TRUE ELSE joinWoken
    /\ UNCHANGED <<mainpc, sent, received, joinSkip, joinPolled, joinResult,
                   url_ch, image_ch, processed_ch, output_ch,
                   h1vars, h2vars, h3vars, result, admitted, sentBy, finished,
                   svars, ivars, mvars, jvars>>

\* The order in which one poll of try_join! polls the three handles: it
\* starts after skip handles and wraps around.
PollOrder(skip) == [k \in 1..3 |-> ((skip + k - 1) % 3) + 1]

\* The handles one poll finds ready with Err(JoinError).
Failed(order, k) == handle[order[k]] /\ result[order[k]] = "panic"

\* One poll of try_join!: the first Err met in polling order is returned at
\* once; Ok when all three handles are ready with Ok; Pending otherwise.
JoinOutcome(skip) ==
    LET order == PollOrder(skip)
        errs == {k \in 1..3 : Failed(order, k)}
    IN  IF errs # {}
        THEN order[CHOOSE k \in errs : \A j \in errs : k <= j]
        ELSE IF \A s \in Stages : handle[s] THEN 0 ELSE -1

\* try_join! is polled: first when the drain loop is over, then whenever a
\* JoinHandle has woken the main task.
MainJoinPending ==
    /\ mainpc = "join"
    /\ ~joinPolled \/ joinWoken
    /\ JoinOutcome(joinSkip) = -1
    /\ joinPolled' = TRUE
    /\ joinWoken' = FALSE
    /\ joinSkip' = (joinSkip + 1) % 3
    /\ UNCHANGED <<mainpc, sent, received, joinResult,
                   url_ch, image_ch, processed_ch, output_ch,
                   h1vars, h2vars, h3vars, result, handle,
                   admitted, sentBy, finished, svars, ivars, mvars, jvars>>

\* try_join! is Ok((), (), ()): unwrap() succeeds and the function returns,
\* dropping output_receiver.
MainJoinOk ==
    /\ mainpc = "join"
    /\ ~joinPolled \/ joinWoken
    /\ JoinOutcome(joinSkip) = 0
    /\ joinResult' = <<"ok">>
    /\ mainpc' = "done"
    /\ UNCHANGED <<sent, received, joinSkip, joinPolled, joinWoken,
                   url_ch, image_ch, processed_ch, output_ch,
                   h1vars, h2vars, h3vars, result, handle,
                   admitted, sentBy, finished, svars, ivars, mvars, jvars>>

\* try_join! is Err(JoinError) of one stage: unwrap() panics.
MainJoinErr ==
    /\ mainpc = "join"
    /\ ~joinPolled \/ joinWoken
    /\ JoinOutcome(joinSkip) \in Stages
    /\ joinResult' = <<"err", JoinOutcome(joinSkip)>>
    /\ mainpc' = "panicked"
    /\ UNCHANGED <<sent, received, joinSkip, joinPolled, joinWoken,
                   url_ch, image_ch, processed_ch, output_ch,
                   h1vars, h2vars, h3vars, result, handle,
                   admitted, sentBy, finished, svars, ivars, mvars, jvars>>

----------------------------------------------------------------------------
(* The program as written: download_image, process_image and save_image    *)
(* never fail, so no task ends before its upstream is closed and drained,  *)
(* and no send ever meets a dropped receiver.                              *)

Next ==
    \/ MainSend
    \/ MainDropSender
    \/ MainRecv
    \/ MainRecvNone
    \/ MainJoinPending
    \/ MainJoinOk
    \/ H1Recv
    \/ H1RecvNone
    \/ H1Send
    \/ H2Admit
    \/ H2Finish
    \/ H2Next
    \/ H2Send
    \/ H2Else
    \/ H3Recv
    \/ H3RecvNone
    \/ H3Send
    \/ \E s \in Stages : StageComplete(s)

Spec == Init /\ [][Next]_vars

\* tokio runs every task that is ready and every sleep elapses.
LiveSpec == Init /\ [][Next]_vars /\ WF_vars(Next)

(* The program with as many urls as one channel holds: in the source 32    *)
(* urls meet channels of capacity 100, so the loop over the urls is never  *)
(* held up; with NumUrls above Cap it is.  Here the urls are 0..Cap-1.     *)

\* Variant: one url more than a channel holds.
ShortUrls_OverCap == Cap + 1

\* The number of urls, the most that fits one channel.
ShortUrls == Cap

\* url_sender.send(url).await.unwrap() with a live receiver and a free slot.
ShortSend ==
    /\ mainpc = "send"
    /\ sent < ShortUrls
    /\ ~Exited(1)
    /\ CanSend(url_ch)
    /\ url_ch' = Enqueue(url_ch, sent)
    /\ sent' = sent + 1
    /\ UNCHANGED <<mainpc, received, image_ch, processed_ch, output_ch,
                   h1vars, h2vars, h3vars, result, handle, joinvars,
                   admitted, sentBy, finished, svars, ivars, mvars, jvars>>

\* The for loop is over: drop(url_sender).
ShortDropSender ==
    /\ mainpc = "send"
    /\ sent = ShortUrls
    /\ mainpc' = "drain"
    /\ UNCHANGED <<sent, received, url_ch, image_ch, processed_ch, output_ch,
                   h1vars, h2vars, h3vars, result, handle, joinvars,
                   admitted, sentBy, finished, svars, ivars, mvars, jvars>>

ShortNext ==
    \/ ShortSend
    \/ ShortDropSender
    \/ MainRecv
    \/ MainRecvNone
    \/ MainJoinPending
    \/ MainJoinOk
    \/ H1Recv
    \/ H1RecvNone
    \/ H1Send
    \/ H2Admit
    \/ H2Finish
    \/ H2Next
    \/ H2Send
    \/ H2Else
    \/ H3Recv
    \/ H3RecvNone
    \/ H3Send
    \/ \E s \in Stages : StageComplete(s)

\* Fair scheduling, as in LiveSpec.
ShortSpec == Init /\ [][ShortNext]_vars /\ WF_vars(ShortNext)

(* The program with failing workers: any worker call may panic.  The       *)
(* branches that handle a failed send become reachable.                    *)

FaultNext ==
    \/ Next
    \/ H1Panic
    \/ H2Panic
    \/ H3Panic
    \/ H1SendFailed
    \/ H2SendFailed
    \/ H3SendFailed
    \/ MainSendPanic
    \/ MainJoinErr

FaultSpec == Init /\ [][FaultNext]_vars

----------------------------------------------------------------------------
(* rust-stream-visualized/src/main.rs: buffered_example (18-24) and        *)
(* unordered_example (26-32):                                              *)
(*   stream::iter(0..StreamLen).map(async_work).buffered(n)                *)
(*   stream::iter(0..StreamLen).map(async_work).buffer_unordered(n)        *)
(* drained by while let Some(next) = stream.next().await.                  *)

\* async_work sleeps and returns its argument.
async_work(x) == x

PipelineIdle ==
    /\ mainpc = "done"
    /\ sent = 0
    /\ received = <<>>
    /\ url_ch = <<>>
    /\ image_ch = <<>>
    /\ processed_ch = <<>>
    /\ output_ch = <<>>
    /\ h1pc = "exited"
    /\ h1item = <<>>
    /\ h2pc = "exited"
    /\ running = {}
    /\ ready = <<>>
    /\ h2item = <<>>
    /\ h3pc = "exited"
    /\ h3item = <<>>
    /\ result = [s \in Stages |-> "ok"]
    /\ handle = [s \in Stages |-> TRUE]
    /\ joinSkip = 0
    /\ joinPolled = FALSE
    /\ joinWoken = FALSE
    /\ joinResult = <<"ok">>
    /\ admitted = [s \in Stages |-> <<>>]
    /\ sentBy = [s \in Stages |-> <<>>]
    /\ finished = <<>>

\* One of the two examples, with a limit n >= 1 (3 in the source).
StreamInit ==
    /\ PipelineIdle
    /\ smode \in {"ordered", "unordered"}
    /\ slimit \in 1..MaxLimit
    /\ snext = 0
    /\ squeue = <<>>
    /\ sdone = <<>>
    /\ sout = <<>>
    /\ sended = FALSE
    /\ IterIdle
    /\ MagicIdle
    /\ JourneyIdle

Min(a, b) == IF a <= b THEN a ELSE b

\* poll_next first fills the in-progress queue from the underlying stream
\* while it holds fewer than n futures; stream::iter is always ready.
FillCount(q, next, limit) == Min(limit - Len(q), StreamLen - next)

Fill(q, next, limit) ==
    q \o [i \in 1..FillCount(q, next, limit) |-> next + i - 1]

Without(q, x) == SelectSeq(q, LAMBDA y : y # x)

\* Variant: the ordered queue hands out whatever finished first.
Emittable_AnyFinished(mode, q, done) == done # <<>>

\* Whether the in-progress queue has an output to give: FuturesOrdered gives
\* the output of its oldest future only, FuturesUnordered that of any
\* finished future.
Emittable(mode, q, done) ==
    IF mode = "ordered"
    THEN q # <<>> /\ Head(q) \in {done[i] : i \in 1..Len(done)}
    ELSE done # <<>>

\* The future whose output comes out: the oldest one (ordered), the one that
\* finished first (unordered).
Emitted(mode, q, done) ==
    IF mode = "ordered" /\ Head(q) \in {done[i] : i \in 1..Len(done)}
    THEN Head(q)
    ELSE Head(done)

\* The sleep of one in-flight async_work future elapses.
SFinish ==
    /\ smode # "off"
    /\ \E i \in 1..Len(squeue) :
          /\ squeue[i] \notin {sdone[j] : j \in 1..Len(sdone)}
          /\ sdone' = Append(sdone, squeue[i])
    /\ UNCHANGED <<pvars, ivars, mvars, jvars, smode, slimit, snext, squeue, sout, sended>>

\* stream.next() is polled and yields Some(next): the queue is filled, then
\* an output is taken from it and printed.
SNextSome ==
    /\ smode # "off"
    /\ ~sended
    /\ LET q == Fill(squeue, snext, slimit)
       IN  /\ Emittable(smode, q, sdone)
           /\ snext' = snext + FillCount(squeue, snext, slimit)
           /\ sout' = Append(sout, async_work(Emitted(smode, q, sdone)))
           /\ squeue' = Without(q, Emitted(smode, q, sdone))
           /\ sdone' = Without(sdone, Emitted(smode, q, sdone))
    /\ UNCHANGED <<pvars, ivars, mvars, jvars, smode, slimit, sended>>

\* stream.next() is polled and is Pending: the queue is filled, no output
\* is ready yet.
SNextPending ==
    /\ smode # "off"
    /\ ~sended
    /\ FillCount(squeue, snext, slimit) > 0
    /\ ~Emittable(smode, Fill(squeue, snext, slimit), sdone)
    /\ snext' = snext + FillCount(squeue, snext, slimit)
    /\ squeue' = Fill(squeue, snext, slimit)
    /\ UNCHANGED <<pvars, ivars, mvars, jvars, smode, slimit, sdone, sout, sended>>

\* stream.next() yields None: the underlying stream is done and no future
\* is in progress; the while let loop ends.
SNextNone ==
    /\ smode # "off"
    /\ ~sended
    /\ snext = StreamLen
    /\ squeue = <<>>
    /\ sended' = TRUE
    /\ UNCHANGED <<pvars, ivars, mvars, jvars, smode, slimit, snext, squeue, sdone, sout>>

StreamNext ==
    \/ SFinish
    \/ SNextSome
    \/ SNextPending
    \/ SNextNone

StreamSpec == StreamInit /\ [][StreamNext]_vars

----------------------------------------------------------------------------
(* dumbing-down-iterator: SliceIterator, MyFilter, MyMap and the Vec       *)
(* collected from them.  Option values are sequences: <<>> is None and     *)
(* <<x>> is Some(x).                                                       *)

\* The closures given to filter: |x| *x % 2 == 0 (lib.rs:20) and its
\* opposite.
FilterFns == {"even", "odd"}

filter_fn(p, x) == IF p = "even" THEN x % 2 = 0 ELSE x % 2 = 1

\* The closures given to map: |x| x * 2 (lib.rs:21) and |x| x + 1.
MapFns == {"double", "succ"}

map_fn(f, x) == IF f = "double" THEN x * 2 ELSE x + 1

\* The slices of at most MaxLen values.
Slices == UNION {[1..n -> 1..MaxVal] : n \in 0..MaxLen}

\* Variant: next steps over one element more than it returns.
SliceIterator_next_SkipOne(data, pos) ==
    IF pos >= Len(data)
    THEN [ret |-> <<>>, pos |-> pos]
    ELSE [ret |-> <<data[pos + 1]>>, pos |-> pos + 2]

\* SliceIterator::next: the value returned and the pos it leaves; data is
\* indexed from 1 here, so data[self.pos] is data[pos + 1].
SliceIterator_next(data, pos) ==
    IF pos >= Len(data)
    THEN [ret |-> <<>>, pos |-> pos]
    ELSE [ret |-> <<data[pos + 1]>>, pos |-> pos + 1]

\* Variant: `if let` in place of `while let`: one element is tested.
MyFilter_next_IfLet(data, pos, p) ==
    LET r == SliceIterator_next(data, pos)
    IN  IF r.ret # <<>> /\ filter_fn(p, r.ret[1])
        THEN r
        ELSE [ret |-> <<>>, pos |-> r.pos]

\* MyFilter::next over a SliceIterator: the while let loop pulls until
\* filter_fn accepts an element or the inner next is None.
RECURSIVE MyFilter_next(_, _, _)
MyFilter_next(data, pos, p) ==
    LET r == SliceIterator_next(data, pos)
    IN  IF r.ret = <<>>
        THEN r
        ELSE IF filter_fn(p, r.ret[1])
             THEN r
             ELSE MyFilter_next(data, r.pos, p)

\* Variant: map_fn is not applied.
MyMap_next_Identity(r, f) == r

\* MyMap::next, given what self.iter.next() returned.
MyMap_next(r, f) ==
    IF r.ret # <<>>
    THEN [ret |-> <<map_fn(f, r.ret[1])>>, pos |-> r.pos]
    ELSE r

\* Variant: the new element is put in front.
VecPush_Front(vec, x) == <<x>> \o vec

\* vec.push(x)
VecPush(vec, x) == Append(vec, x)

\* Variant: the set keeps the last element only.
SetInsert_Replace(set, x) == {x}

\* set.insert(x)
SetInsert(set, x) == set \cup {x}

\* SliceIterator::new(&data) alone, SliceIterator::new(&data).filter(p),
\* MyMap::new(SliceIterator::new(&data), f), or
\* SliceIterator::new(&data).filter(p).map(f) handed to collect, or
\* SliceIterator::new(&data) handed to Vec::my_from_iter or to
\* HashSet::my_from_iter.
IterInit ==
    /\ PipelineIdle
    /\ StreamIdle
    /\ MagicIdle
    /\ JourneyIdle
    /\ \E data \in Slices :
          \/ iter = NewIter("slice", data, "even", "double")
          \/ \E p \in FilterFns : iter = NewIter("filter", data, p, "double")
          \/ \E f \in MapFns : iter = NewIter("map", data, "even", f)
          \/ \E p \in FilterFns : \E f \in MapFns :
                iter = NewIter("filter_map", data, p, f)
          \/ iter = NewIter("vec", data, "even", "double")
          \/ iter = NewIter("set", data, "even", "double")

\* The caller may go on calling next after None.
MayCall == Len(iter.ret) < Len(iter.data) + 2

\* iter.next() on the SliceIterator.
SliceNextCall ==
    /\ iter.chain = "slice"
    /\ MayCall
    /\ LET r == SliceIterator_next(iter.data, iter.pos)
       IN  iter' = [iter EXCEPT !.ret = Append(@, r.ret), !.pos = r.pos]
    /\ UNCHANGED <<pvars, svars, mvars, jvars>>

\* iter.next() on the MyFilter.
FilterNextCall ==
    /\ iter.chain = "filter"
    /\ MayCall
    /\ LET r == MyFilter_next(iter.data, iter.pos, iter.pred)
       IN  iter' = [iter EXCEPT !.ret = Append(@, r.ret), !.pos = r.pos]
    /\ UNCHANGED <<pvars, svars, mvars, jvars>>

\* iter.next() on the MyMap over the SliceIterator.
MapNextCall ==
    /\ iter.chain = "map"
    /\ MayCall
    /\ LET r == MyMap_next(SliceIterator_next(iter.data, iter.pos), iter.fn)
       IN  iter' = [iter EXCEPT !.ret = Append(@, r.ret), !.pos = r.pos]
    /\ UNCHANGED <<pvars, svars, mvars, jvars>>

\* iter.next() of the iterator handed to my_from_iter.
CollectedNext ==
    IF iter.chain = "filter_map"
    THEN MyMap_next(MyFilter_next(iter.data, iter.pos, iter.pred), iter.fn)
    ELSE SliceIterator_next(iter.data, iter.pos)

\* Vec::my_from_iter, one turn of `while let Some(x) = iter.next()`: push.
CollectPush ==
    /\ iter.chain \in {"filter_map", "vec"}
    /\ ~iter.returned
    /\ LET r == CollectedNext
       IN  /\ r.ret # <<>>
           /\ iter' = [iter EXCEPT !.vec = VecPush(@, r.ret[1]),
                                   !.ret = Append(@, r.ret),
                                   !.pos = r.pos]
    /\ UNCHANGED <<pvars, svars, mvars, jvars>>

\* next is None: the loop ends and vec is returned.
CollectReturn ==
    /\ iter.chain \in {"filter_map", "vec"}
    /\ ~iter.returned
    /\ LET r == CollectedNext
       IN  /\ r.ret = <<>>
           /\ iter' = [iter EXCEPT !.ret = Append(@, r.ret),
                                   !.pos = r.pos,
                                   !.returned = TRUE]
    /\ UNCHANGED <<pvars, svars, mvars, jvars>>

\* HashSet::my_from_iter, one turn of the loop: insert.
SetCollectInsert ==
    /\ iter.chain = "set"
    /\ ~iter.returned
    /\ LET r == CollectedNext
       IN  /\ r.ret # <<>>
           /\ iter' = [iter EXCEPT !.set = SetInsert(@, r.ret[1]),
                                   !.ret = Append(@, r.ret),
                                   !.pos = r.pos]
    /\ UNCHANGED <<pvars, svars, mvars, jvars>>

\* next is None: the loop ends and set is returned.
SetCollectReturn ==
    /\ iter.chain = "set"
    /\ ~iter.returned
    /\ LET r == CollectedNext
       IN  /\ r.ret = <<>>
           /\ iter' = [iter EXCEPT !.ret = Append(@, r.ret),
                                   !.pos = r.pos,
                                   !.returned = TRUE]
    /\ UNCHANGED <<pvars, svars, mvars, jvars>>

IterNext ==
    \/ SliceNextCall
    \/ FilterNextCall
    \/ MapNextCall
    \/ CollectPush
    \/ CollectReturn
    \/ SetCollectInsert
    \/ SetCollectReturn

IterSpec == IterInit /\ [][IterNext]_vars

----------------------------------------------------------------------------
(* magic.rs and axum-style-magic-function-param/src/main.rs: trigger calls *)
(* a handler with arguments taken from the Context by their types.  An     *)
(* argument is a pair of its type and its value.                           *)

Contexts == [param : {"magic", "other"}, id : 0..MaxId]

\* The parameter types of the four handlers of main.rs.
Signature(h) ==
    CASE h = "print_id" -> <<"Id">>
      [] h = "print_param" -> <<"Param">>
      [] h = "print_all" -> <<"Param", "Id">>
      [] h = "print_all_switched" -> <<"Id", "Param">>

Handlers == {"print_id", "print_param", "print_all", "print_all_switched"}

\* Variant: Id is built without looking at the context.
from_context_DefaultId(T, context) ==
    IF T = "Param" THEN <<"Param", context.param>> ELSE <<"Id", 0>>

\* FromContext::from_context for Param and for Id.
from_context(T, context) ==
    IF T = "Param" THEN <<"Param", context.param>> ELSE <<"Id", context.id>>

\* Handler::call: one or two arguments, each from the same context, in the
\* order of the handler's parameters.
call(h, context) ==
    [k \in 1..Len(Signature(h)) |-> from_context(Signature(h)[k], context)]

\* What the handler prints from its arguments: the text's fields.
Printed(h, args) ==
    CASE h = "print_id" -> [id |-> args[1][2]]
      [] h = "print_param" -> [param |-> args[1][2]]
      [] h = "print_all" -> [param |-> args[1][2], id |-> args[2][2]]
      [] h = "print_all_switched" -> [param |-> args[2][2], id |-> args[1][2]]

MagicInit ==
    /\ PipelineIdle
    /\ StreamIdle
    /\ IterIdle
    /\ JourneyIdle
    /\ \E context \in Contexts :
          magic = [context |-> context, calls |-> <<>>, out |-> <<>>]

\* trigger(context.clone(), handler)
Trigger(h) ==
    /\ Len(magic.calls) < MaxTriggers
    /\ LET args == call(h, magic.context)
       IN  magic' = [magic EXCEPT
                       !.calls = Append(@, [handler |-> h, args |-> args]),
                       !.out = Append(@, Printed(h, args))]
    /\ UNCHANGED <<pvars, svars, ivars, jvars>>

MagicNext == \E h \in Handlers : Trigger(h)

MagicSpec == MagicInit /\ [][MagicNext]_vars

----------------------------------------------------------------------------
(* visual-journey-through-async-rust/src/main.rs: two_futures,             *)
(* cpu_intensive, spawn_task, many_spawn_task and many_spawn_blocking.     *)
(* Each gives a clone of tx to every producer, awaits join_all, drops its  *)
(* own tx and then receives until None.  A sample is the producer's name   *)
(* and the i it was computed from.                                         *)

\* Variant: the channel hands out the newest sample first.
SendSample_Front(chan, sample) == <<sample>> \o chan

\* tx.send(sample).unwrap() on the unbounded channel: always Ok at once.
SendSample(chan, sample) == Append(chan, sample)

\* Every sender is dropped: the clones with their producers, tx by drop(tx).
AllSendersDropped ==
    /\ ~journey.tx
    /\ \A p \in 1..journey.producers : journey.finished[p]

JourneyInit ==
    /\ PipelineIdle
    /\ StreamIdle
    /\ IterIdle
    /\ MagicIdle
    /\ \E P \in 1..MaxProducers : journey = NewJourney(P, "join_all")

\* One turn of the producer's for loop: the sample is computed and sent,
\* then the producer yields.
Produce(p) ==
    /\ journey.pc = "join_all"
    /\ ~journey.finished[p]
    /\ journey.next[p] < N
    /\ journey' = [journey EXCEPT
                     !.chan = SendSample(@, [fut_name |-> p,
                                             i |-> journey.next[p]]),
                     !.next[p] = @ + 1]
    /\ UNCHANGED <<pvars, svars, ivars, mvars>>

\* The for loop is over: the producer returns and its tx is dropped.
ProducerReturn(p) ==
    /\ journey.pc = "join_all"
    /\ ~journey.finished[p]
    /\ journey.next[p] = N
    /\ journey' = [journey EXCEPT !.finished[p] = TRUE]
    /\ UNCHANGED <<pvars, svars, ivars, mvars>>

\* join_all(futs).await is ready; drop(tx).
JoinAllDropTx ==
    /\ journey.pc = "join_all"
    /\ \A p \in 1..journey.producers : journey.finished[p]
    /\ journey' = [journey EXCEPT !.tx = FALSE, !.pc = "recv"]
    /\ UNCHANGED <<pvars, svars, ivars, mvars>>

\* while let Some(next) = rx.recv().await: samples.push(next).
SampleRecv ==
    /\ journey.pc = "recv"
    /\ journey.chan # <<>>
    /\ journey' = [journey EXCEPT !.samples = Append(@, Head(journey.chan)),
                                  !.chan = Tail(@)]
    /\ UNCHANGED <<pvars, svars, ivars, mvars>>

\* recv() is None: the channel is empty and every sender is dropped; the
\* function returns samples.
SampleRecvNone ==
    /\ journey.pc = "recv"
    /\ journey.chan = <<>>
    /\ AllSendersDropped
    /\ journey' = [journey EXCEPT !.pc = "returned"]
    /\ UNCHANGED <<pvars, svars, ivars, mvars>>

JourneyNext ==
    \/ \E p \in 1..journey.producers : Produce(p)
    \/ \E p \in 1..journey.producers : ProducerReturn(p)
    \/ JoinAllDropTx
    \/ SampleRecv
    \/ SampleRecvNone

\* The runtime polls every future that is ready.
JourneySpec == JourneyInit /\ [][JourneyNext]_vars /\ WF_vars(JourneyNext)

----------------------------------------------------------------------------
\* The elements the stage has pulled from stream::iter, in order.
Pulled == [i \in 1..snext |-> i - 1]

\* C2. Ordered(n): for every n in 1..MaxLimit and every completion order,
\* what buffered(n) has emitted is the sequence of the elements pulled so
\* far, each through async_work, up to the oldest one still in flight: no
\* result is out while an older future is still in the queue; when the loop
\* ends the output is the whole input.
C2_OrderedPreservesOrder ==
    smode = "ordered" =>
        /\ sout \o [i \in 1..Len(squeue) |-> async_work(squeue[i])]
              = [i \in 1..snext |-> async_work(Pulled[i])]
        /\ \A i \in 1..Len(sout) : \A j \in 1..Len(squeue) : sout[i] < squeue[j]
        /\ sended => sout = [i \in 1..StreamLen |-> async_work(i - 1)]

\* C2 witness: under buffered(n) a later future has finished while the
\* oldest one has not; its result is held back although results were
\* already emitted.
C2_Witness ==
    /\ smode = "ordered"
    /\ sout # <<>>
    /\ Len(squeue) >= 2
    /\ squeue[2] \in Range(sdone)
    /\ squeue[1] \notin Range(sdone)
    /\ ~ENABLED SNextSome

----------------------------------------------------------------------------
(* Properties of async_pipeline_example.                                   *)

RECURSIVE SumSeq(_)
SumSeq(q) == IF q = <<>> THEN 0 ELSE Head(q) + SumSeq(Tail(q))

Count(q, x) == Cardinality({i \in 1..Len(q) : q[i] = x})

IsPrefix(p, q) == Len(p) <= Len(q) /\ \A i \in 1..Len(p) : p[i] = q[i]

\* What the three stages make of a url, end to end.
Transformed(url) == image_url(process_image(download_image(url)))

NoWorkerFailed == \A s \in Stages : result[s] # "panic"

DrainOver == mainpc \in {"join", "done"}

\* C1. No loss, no duplication: once the drain loop has seen end-of-stream
\* (and no worker failed), every transformed input url has been received
\* exactly once and nothing else has; the received urls sum to n*(n-1)/2.
C1_NoLossNoDuplication ==
    (DrainOver /\ NoWorkerFailed) =>
        /\ \A u \in Urls : Count(received, Transformed(u)) = 1
        /\ Len(received) = NumUrls
        /\ 2 * SumSeq(received) = NumUrls * (NumUrls - 1)

\* C1 witness: the drain is over and the sink received the urls in an order
\* other than the one they were produced in.
C1_Witness ==
    /\ DrainOver
    /\ Len(received) = NumUrls
    /\ \E i \in 1..(NumUrls - 1) : received[i] > received[i + 1]

\* C3. Backpressure bound: no channel ever buffers more than its capacity.
C3_BackpressureBound ==
    /\ Len(url_ch) <= Cap
    /\ Len(image_ch) <= Cap
    /\ Len(processed_ch) <= Cap
    /\ Len(output_ch) <= Cap

\* C3 witness: the channel between h2 and h3 is full while h2 is suspended
\* in send with a processed image in hand and more work behind it.
C3_Witness ==
    /\ Len(processed_ch) = Cap
    /\ h2pc = "sending"
    /\ h2item # <<>>
    /\ InProgressLen > 0
    /\ h3pc = "busy"

AllDelivered ==
    /\ mainpc = "done"
    /\ joinResult = <<"ok">>
    /\ \A u \in Urls : Count(received, Transformed(u)) = 1
    /\ \A s \in Stages : result[s] = "ok" /\ handle[s]

\* C4. Graceful shutdown: with the source closed after NumUrls urls and no
\* failing worker, every fair run reaches the state where all urls were
\* received, all three tasks returned and try_join! gave Ok; in particular
\* no earlier state is a deadlock.
C4_GracefulShutdown == <>[]AllDelivered

\* C4 witness: the function has returned with everything delivered.
C4_Witness == AllDelivered /\ Len(received) = NumUrls /\ sent = NumUrls

InFlight(s) == Len(admitted[s]) - Len(sentBy[s])

\* C9. In-flight limit: h2 never has more than 4 admitted and unsent
\* images, counted either from what it pulled and sent or from what it
\* holds (its FuturesUnordered and the image it is sending).
C9_InFlightLimit ==
    /\ InFlight(2) <= MaxInProgress
    /\ InProgressLen + Len(h2item) <= MaxInProgress
    /\ InProgressLen + Len(h2item) = InFlight(2)

\* C9 witness: 4 futures are in progress and an image waits in the
\* upstream channel, which h2 does not pull.
C9_Witness ==
    /\ InProgressLen = MaxInProgress
    /\ h2pc = "select"
    /\ image_ch # <<>>
    /\ ~ENABLED H2Admit

\* C10. h2 emits in completion order: what it has sent downstream is a
\* prefix of the order in which its futures finished.
C10_CompletionOrder ==
    /\ IsPrefix(sentBy[2], finished)
    /\ finished = sentBy[2] \o [i \in 1..Len(h2item) |-> h2item[i].url]
                            \o [i \in 1..Len(ready) |-> ready[i].url]

\* C10 witness: h2 admitted url 0 and then url 1, and sent url 1 first.
C10_Witness ==
    /\ Len(admitted[2]) >= 2
    /\ admitted[2][1] = 0
    /\ admitted[2][2] = 1
    /\ sentBy[2] # <<>>
    /\ sentBy[2][1] = 1

----------------------------------------------------------------------------
(* Properties of async_pipeline_example with failing workers.              *)

Panicked == {s \in Stages : result[s] = "panic"}

Earliest(S) == CHOOSE s \in S : \A t \in S : s <= t

JoinIsErr == joinResult[1] = "err"

\* async_pipeline_example is over: it returned or it unwound.
MainOver == mainpc \in {"done", "panicked"}

\* C5. Failure propagation: when a worker has failed, the run does not end
\* without try_join! having resolved to the JoinError of a stage whose
\* worker failed.
C5_FailurePropagation ==
    (MainOver /\ Panicked # {}) =>
        (JoinIsErr /\ joinResult[2] \in Panicked)

\* C6. Delivered-before-failure items survive: when the worker of exactly
\* one stage failed, every url that stage had sent downstream has been
\* received at the sink by the time the run is over.
C6_DeliveredSurvive ==
    (MainOver /\ Cardinality(Panicked) = 1) =>
        \A s \in Panicked : Range(sentBy[s]) \subseteq Range(received)

\* C7. Earliest stage wins: at the step where try_join! resolves to an
\* error, the error is that of the earliest stage whose worker has failed.
C7_EarliestStageWins ==
    [][(joinResult = <<"pending">> /\ joinResult'[1] = "err")
          => joinResult'[2] = Earliest({s \in Stages : result'[s] = "panic"})]_vars

Quiescent == MainOver /\ \A s \in Stages : Exited(s)

SentExactlyOnce(s) ==
    \A u \in Range(admitted[s]) : Count(sentBy[s], u) = 1

\* C8. No silent drop: once everything has stopped, every url a stage
\* admitted has been sent downstream exactly once, or try_join! has
\* resolved to an error.
C8_NoSilentDrop ==
    Quiescent => ((\A s \in Stages : SentExactlyOnce(s)) \/ JoinIsErr)

----------------------------------------------------------------------------
(* Closing order of the stages and channel discipline.                     *)

\* The stage's upstream receiver is at end-of-stream.
UpstreamDone(s) ==
    CASE s = 1 -> RecvNone(url_ch, UrlSenderDropped)
      [] s = 2 -> RecvNone(image_ch, Exited(1))
      [] s = 3 -> RecvNone(processed_ch, Exited(2))

\* The stage holds no admitted item.
NothingInFlight(s) ==
    CASE s = 1 -> h1item = <<>>
      [] s = 2 -> InProgressLen = 0 /\ h2item = <<>>
      [] s = 3 -> h3item = <<>>

\* A stage that dropped its sender had seen end-of-stream upstream, holds
\* nothing, and has sent every url it admitted exactly once.
ClosedInOrder(s) ==
    Exited(s) =>
        /\ UpstreamDone(s)
        /\ NothingInFlight(s)
        /\ Len(sentBy[s]) = Len(admitted[s])
        /\ \A u \in Range(admitted[s]) : Count(sentBy[s], u) = 1

\* The stage can take nothing more from upstream and holds nothing.
Closable(s) == UpstreamDone(s) /\ NothingInFlight(s)

\* C11. Stage close ordering: without failure or cancellation a stage drops
\* its downstream sender only after upstream end-of-stream with nothing in
\* flight and everything admitted sent; that condition, once true, stays
\* true, and every fair run reaches the point from which each stage in
\* that condition has dropped its sender.
C11_CloseOrdering ==
    /\ [](\A s \in Stages : ClosedInOrder(s))
    /\ [][\A s \in Stages : Closable(s) => Closable(s)']_vars
    /\ <>[](\A s \in Stages : Closable(s) => Exited(s))

\* C11 witness: h2 has closed the channel to h3 after sending all the urls,
\* while h3 still has buffered images to take.
C11_Witness ==
    /\ Exited(2)
    /\ ~Exited(3)
    /\ Len(sentBy[2]) = NumUrls
    /\ processed_ch # <<>>

UrlsOf(ch) == [i \in 1..Len(ch) |-> ch[i].url]

\* C12. Channel FIFO and drain-after-close: on each of the four channels
\* what the receiver has taken followed by what is buffered is exactly what
\* was sent, in sending order; a receiver that has seen end-of-stream (its
\* loop is over) has taken everything that was ever sent, with the channel
\* closed and empty.
C12_FifoDrainAfterClose ==
    /\ admitted[1] \o url_ch = [i \in 1..sent |-> i - 1]
    /\ admitted[2] \o UrlsOf(image_ch) = sentBy[1]
    /\ admitted[3] \o UrlsOf(processed_ch) = sentBy[2]
    /\ received \o output_ch = sentBy[3]
    /\ Exited(1) => (UrlSenderDropped /\ url_ch = <<>> /\ Len(admitted[1]) = sent)
    /\ Exited(2) => (Exited(1) /\ image_ch = <<>> /\ admitted[2] = sentBy[1])
    /\ Exited(3) => (Exited(2) /\ processed_ch = <<>> /\ admitted[3] = sentBy[2])
    /\ DrainOver => (Exited(3) /\ output_ch = <<>> /\ received = sentBy[3])

\* C12 witness: h1 has dropped image_sender while the channel is still full
\* and h2 has not yet seen end-of-stream; h3 has already taken images that
\* arrived out of url order.
C12_Witness ==
    /\ Exited(1)
    /\ Len(image_ch) = Cap
    /\ ~Exited(2)
    /\ \E i \in 1..(Len(admitted[3]) - 1) : admitted[3][i] > admitted[3][i + 1]

----------------------------------------------------------------------------
(* Cancellation.  The only way output_receiver is dropped while urls are   *)
(* still flowing is the unwinding of async_pipeline_example, after h1 has  *)
(* ended early; here h1's worker may panic and the other workers do not.   *)

CancelNext ==
    \/ Next
    \/ H1Panic
    \/ MainSendPanic
    \/ MainJoinErr
    \/ H2SendFailed
    \/ H3SendFailed

\* Fair scheduling of every step but the panic of the worker.
CancelSpec ==
    /\ Init
    /\ [][CancelNext]_vars
    /\ WF_vars(Next \/ MainSendPanic \/ MainJoinErr \/ H2SendFailed
                    \/ H3SendFailed)

AllClosed ==
    /\ \A s \in Stages : Exited(s)
    /\ url_ch = <<>> /\ image_ch = <<>> /\ processed_ch = <<>> /\ output_ch = <<>>

----------------------------------------------------------------------------
(* The order of the branches of h2's select!.                              *)

\* Both branches of the select! could complete: a finished future is there
\* to take, and an image is buffered with a free slot for it.
BothReady == h2pc = "select" /\ ready # <<>> /\ FirstBranchReady

\* C14. Drain before admit: while a completed process_image future and a
\* buffered image with a free slot are both ready, h2 admits no image, and
\* its step from there hands the completed image to the send.
C14_DrainBeforeAdmit ==
    [][BothReady => /\ admitted'[2] = admitted[2]
                    /\ (h2pc' # h2pc => h2pc' = "sending")]_vars

----------------------------------------------------------------------------
(* Ordering across stages: h3 takes one image at a time after h2, whose    *)
(* FuturesUnordered hands images on in completion order.                   *)

Sorted(q) == \A i \in 1..(Len(q) - 1) : q[i] < q[i + 1]

----------------------------------------------------------------------------
(* A send that fails because the receiver is gone.                         *)

\* Stage s ended with an admitted item in hand that it never sent.
StoppedEarly(s) == Exited(s) /\ Len(admitted[s]) > Len(sentBy[s])

\* The program where only save_image, the worker of the last stage, may
\* panic: h2 and then h1 meet a dropped receiver on their next send.
BreakNext ==
    \/ Next
    \/ H3Panic
    \/ H2SendFailed
    \/ H1SendFailed
    \/ MainSendPanic
    \/ MainJoinErr

BreakSpec == Init /\ [][BreakNext]_vars

\* C16. A stage whose send fails on a closed channel ends normally: h1 and
\* h2, whose workers do not fail here, are never recorded as failed; when
\* they stop with an item in hand their task's outcome is Ok; and an Err of
\* try_join! names h3, the stage whose worker failed, never one of them.
C16_ClosedSendIsBenign ==
    /\ \A s \in {1, 2} : result[s] # "panic"
    /\ \A s \in {1, 2} : StoppedEarly(s) => result[s] = "ok"
    /\ JoinIsErr => joinResult = <<"err", 3>>

\* C16 witness: h1 and h2 both ended on a failed send, neither is recorded
\* as failed, and try_join! reported the stage whose worker failed.
C16_Witness ==
    /\ StoppedEarly(1) /\ result[1] = "ok"
    /\ StoppedEarly(2) /\ result[2] = "ok"
    /\ result[3] = "panic"
    /\ joinResult = <<"err", 3>>

----------------------------------------------------------------------------
(* dumbing-down-iterator.                                                  *)

\* The elements of data that p accepts, in the order of data.
Matching(data, p) == SelectSeq(data, LAMBDA x : filter_fn(p, x))

\* What the k-th call of next returns on an iterator that yields q.
Yielded(q, k) == IF k <= Len(q) THEN <<q[k]>> ELSE <<>>

\* C18. Iterator composition: for every slice, filter closure and map
\* closure, the Vec that SliceIterator::new(slice).filter(p).map(f).collect()
\* builds is at every turn a prefix of, and on return equal to, the list of
\* f(x) for the elements x of the slice that p accepts, in slice order.
C18_Composition ==
    iter.chain = "filter_map" =>
        LET m == Matching(iter.data, iter.pred)
            expected == [i \in 1..Len(m) |-> map_fn(iter.fn, m[i])]
        IN  /\ IsPrefix(iter.vec, expected)
            /\ iter.returned => iter.vec = expected

\* C18 witness: the test of lib.rs, [1, 2, 3, 4, 5] with the even filter
\* and doubling, has returned [4, 8].
C18_Witness ==
    /\ iter.chain = "filter_map"
    /\ iter.data = <<1, 2, 3, 4, 5>>
    /\ iter.pred = "even"
    /\ iter.fn = "double"
    /\ iter.returned
    /\ iter.vec = <<4, 8>>

\* C19. SliceIterator: over a slice of length n the k-th call of next
\* returns the element at index k - 1 for k = 1..n and None for every later
\* call, and pos counts the elements handed out.
C19_SliceIterator ==
    iter.chain = "slice" =>
        /\ \A k \in 1..Len(iter.ret) : iter.ret[k] = Yielded(iter.data, k)
        /\ iter.pos = Min(Len(iter.ret), Len(iter.data))

\* C19 witness: a slice of three or more elements has been walked to its
\* end and the call after the last element returned None.
C19_Witness ==
    /\ iter.chain = "slice"
    /\ Len(iter.data) >= 3
    /\ Len(iter.ret) = Len(iter.data) + 1
    /\ iter.ret[Len(iter.data)] = <<iter.data[Len(iter.data)]>>
    /\ iter.ret[Len(iter.ret)] = <<>>

\* C20. MyFilter::next: the k-th call returns the k-th element of the slice
\* that the closure accepts, or None when fewer than k are accepted; the
\* inner iterator is then left just behind the element returned, having
\* consumed every rejected element before it, or is exhausted.
C20_MyFilterNext ==
    iter.chain = "filter" =>
        LET m == Matching(iter.data, iter.pred)
            k == Len(iter.ret)
        IN  /\ \A j \in 1..k : iter.ret[j] = Yielded(m, j)
            /\ k = 0 => iter.pos = 0
            /\ (0 < k /\ k <= Len(m)) =>
                  /\ iter.pos \in 1..Len(iter.data)
                  /\ iter.data[iter.pos] = m[k]
                  /\ Len(Matching(SubSeq(iter.data, 1, iter.pos), iter.pred)) = k
            /\ k > Len(m) => iter.pos = Len(iter.data)

\* C20 witness: the test of my_filter.rs, [1, 2, 3, 4] with the even
\* filter: 1 and 3 were discarded, 2 and 4 returned, then None.
C20_Witness ==
    /\ iter.chain = "filter"
    /\ iter.data = <<1, 2, 3, 4>>
    /\ iter.pred = "even"
    /\ iter.ret = <<<<2>>, <<4>>, <<>>>>

\* C21. MyMap::next: over a slice of length n the k-th call returns map_fn
\* of the element at index k - 1 for k = 1..n and None for every later
\* call, so the mapped sequence has the length and the order of the slice;
\* each call that returns Some has pulled one element, and a call that
\* returns None has pulled none.
C21_MyMapNext ==
    iter.chain = "map" =>
        /\ \A k \in 1..Len(iter.ret) :
              iter.ret[k] = IF k <= Len(iter.data)
                            THEN <<map_fn(iter.fn, iter.data[k])>>
                            ELSE <<>>
        /\ iter.pos = Min(Len(iter.ret), Len(iter.data))

\* C21 witness: the test of my_map.rs, [1, 2, 3] with doubling, gave 2, 4,
\* 6 and then None.
C21_Witness ==
    /\ iter.chain = "map"
    /\ iter.data = <<1, 2, 3>>
    /\ iter.fn = "double"
    /\ iter.ret = <<<<2>>, <<4>>, <<6>>, <<>>>>
    /\ iter.pos = 3

\* The items among what next returned, in the order they were yielded.
YieldedItems(ret) ==
    LET some == SelectSeq(ret, LAMBDA o : o # <<>>)
    IN  [i \in 1..Len(some) |-> some[i][1]]

\* C22. Collecting: every turn of my_from_iter before the last has consumed
\* at least one element of the slice, so there are at most as many turns as
\* elements plus the one that returns; the Vec holds at every turn the
\* items yielded so far in yield order, the HashSet the set of them; on
\* return the iterator has answered None once, as its last answer, and the
\* slice behind it is used up.
C22_Collect ==
    iter.chain \in {"vec", "set", "filter_map"} =>
        /\ ~iter.returned =>
              /\ Len(iter.ret) <= iter.pos
              /\ iter.pos <= Len(iter.data)
              /\ \A k \in 1..Len(iter.ret) : iter.ret[k] # <<>>
        /\ iter.chain # "set" =>
              /\ iter.vec = YieldedItems(iter.ret)
              /\ iter.set = {}
        /\ iter.chain = "set" =>
              /\ iter.set = Range(YieldedItems(iter.ret))
              /\ iter.vec = <<>>
        /\ iter.returned =>
              /\ iter.pos = Len(iter.data)
              /\ iter.ret[Len(iter.ret)] = <<>>
              /\ Len(YieldedItems(iter.ret)) = Len(iter.ret) - 1
              /\ iter.chain = "vec" => iter.vec = iter.data
              /\ iter.chain = "set" => iter.set = Range(iter.data)

\* C22 witness: a slice with a repeated value was collected into a HashSet
\* smaller than the slice.
C22_Witness ==
    /\ iter.chain = "set"
    /\ iter.returned
    /\ Len(iter.data) = 3
    /\ iter.set = {1, 2}

----------------------------------------------------------------------------
(* Magic function parameters.                                              *)

\* The value of the context that belongs to a parameter type.
FieldOf(T, context) == IF T = "Param" THEN context.param ELSE context.id

\* Every argument of the recorded call is the field of the context that its
\* parameter type names.
ByType(c, context) ==
    /\ Len(c.args) = Len(Signature(c.handler))
    /\ \A k \in 1..Len(c.args) :
          c.args[k] = <<Signature(c.handler)[k],
                        FieldOf(Signature(c.handler)[k], context)>>

\* C23. trigger calls the handler once: each call of trigger adds one call
\* of its handler and one printed line; every argument is the field of the
\* one context that its type names, Param the param and Id the id; and
\* print_all and print_all_switched, declared (Param, Id) and (Id, Param),
\* receive the same two values and print the same.
C23_MagicParams ==
    /\ [](/\ Len(magic.out) = Len(magic.calls)
          /\ \A i \in 1..Len(magic.calls) :
                /\ ByType(magic.calls[i], magic.context)
                /\ \A j \in 1..Len(magic.calls) :
                      (/\ magic.calls[i].handler = "print_all"
                       /\ magic.calls[j].handler = "print_all_switched")
                      => /\ Range(magic.calls[i].args)
                              = Range(magic.calls[j].args)
                         /\ magic.out[i] = magic.out[j])
    /\ [][\E h \in Handlers :
             /\ Len(magic.calls') = Len(magic.calls) + 1
             /\ magic.calls'[Len(magic.calls')].handler = h
             /\ SubSeq(magic.calls', 1, Len(magic.calls)) = magic.calls]_vars

\* C23 witness: the four calls of main, on a context with a param and an id
\* that differ from the defaults; both two-parameter handlers printed
\* param "magic" and id 3.
C23_Witness ==
    /\ magic.context = [param |-> "magic", id |-> 3]
    /\ [i \in 1..Len(magic.calls) |-> magic.calls[i].handler]
          = <<"print_id", "print_param", "print_all", "print_all_switched">>
    /\ magic.out[3] = [param |-> "magic", id |-> 3]
    /\ magic.out[4] = [param |-> "magic", id |-> 3]
    /\ magic.calls[3].args = <<<<"Param", "magic">>, <<"Id", 3>>>>
    /\ magic.calls[4].args = <<<<"Id", 3>>, <<"Param", "magic">>>>

----------------------------------------------------------------------------
(* Sending everything before draining.                                     *)

\* A send that is due finds a free slot at once.
NoSendWaits ==
    /\ (mainpc = "send" /\ sent < ShortUrls) => CanSend(url_ch)
    /\ h1item # <<>> => CanSend(image_ch)
    /\ h2item # <<>> => CanSend(processed_ch)
    /\ h3item # <<>> => CanSend(output_ch)

ShortDelivered ==
    /\ mainpc = "done"
    /\ joinResult = <<"ok">>
    /\ Len(received) = ShortUrls
    /\ \A u \in 0..(ShortUrls - 1) : Count(received, Transformed(u)) = 1
    /\ \A s \in Stages : Exited(s) /\ result[s] = "ok"
    /\ output_ch = <<>>

\* C24. With no more urls than the output channel holds, nothing is
\* received while the loop over the urls runs, no send of the source or of
\* a stage ever has to wait for a free slot, and every fair run ends with
\* the loop over, the three tasks returned and the output drained.
C24_SendAllThenDrain ==
    /\ [](mainpc = "send" => received = <<>>)
    /\ []NoSendWaits
    /\ <>[]ShortDelivered

\* C24 witness: the loop over the urls is still running, nothing has been
\* received, and every result already sits in the output channel, filling
\* it.
C24_Witness ==
    /\ mainpc = "send"
    /\ sent = ShortUrls
    /\ received = <<>>
    /\ Len(output_ch) = Cap
    /\ Len(output_ch) = ShortUrls

----------------------------------------------------------------------------
(* One item at a time in h1 and h3.                                        *)

\* What stage s has taken is what it has sent followed by what it holds.
OneAtATime(s, item) ==
    /\ Len(item) <= 1
    /\ admitted[s] = sentBy[s] \o item

\* C25. h1 and h3 hold at most one item and take the next one only after
\* sending the result of the one before, so each sends in the order in
\* which it received: h1 in the order of the urls, h3 in the order of
\* processed_channel; what the drain loop receives is therefore, in order,
\* the urls of h2's futures in the order in which they finished, all of
\* them once the loop has ended.
C25_SequentialStages ==
    /\ OneAtATime(1, h1item)
    /\ OneAtATime(3, [i \in 1..Len(h3item) |-> h3item[i].url])
    /\ sentBy[1] = [i \in 1..Len(sentBy[1]) |-> i - 1]
    /\ IsPrefix(received, [i \in 1..Len(finished) |-> Transformed(finished[i])])
    /\ DrainOver =>
          received = [i \in 1..Len(finished) |-> Transformed(finished[i])]

\* C25 witness: the drain loop has ended with all urls received, h2's
\* futures did not finish in the order of the urls, and url 0, taken first
\* by h1, came out last.
C25_Witness ==
    /\ DrainOver
    /\ Len(received) = NumUrls
    /\ ~Sorted(finished)
    /\ received[NumUrls] = Transformed(0)
    /\ admitted[1][1] = 0

----------------------------------------------------------------------------
\* The samples of producer p among seq, in the order they stand there.
SamplesOf(seq, p) == SelectSeq(seq, LAMBDA sample : sample.fut_name = p)

\* The first k samples producer p computes, in the order it sends them.
SentInOrder(p, k) == [i \in 1..k |-> [fut_name |-> p, i |-> i]]

\* While join_all is awaited nothing is received and no send is held back:
\* the channel holds every sample every producer has sent so far.
AllSendsBuffered ==
    journey.pc = "join_all" =>
        /\ journey.samples = <<>>
        /\ journey.tx
        /\ \A p \in 1..journey.producers :
               SamplesOf(journey.chan, p) = SentInOrder(p, journey.next[p] - 1)

\* The receive loop runs only once every producer is over and tx is dropped,
\* and it takes each producer's samples in the order the producer sent them.
RecvAfterProducers ==
    journey.pc \in {"recv", "returned"} =>
        /\ AllSendersDropped
        /\ \A p \in 1..journey.producers :
               SamplesOf(journey.samples \o journey.chan, p)
                   = SentInOrder(p, N - 1)

\* The function has returned exactly P * (N - 1) samples.
JourneyReturned ==
    /\ journey.pc = "returned"
    /\ journey.chan = <<>>
    /\ Len(journey.samples) = journey.producers * (N - 1)

\* C26: in the sample-collection functions the sends on the unbounded
\* channel never wait, the receive loop starts only after every producer
\* has finished and the last sender is dropped, it terminates with exactly
\* P * (N - 1) samples, and each producer's samples appear in the order
\* that producer sent them.
C26_SampleCollection ==
    /\ [](AllSendsBuffered /\ RecvAfterProducers)
    /\ [](journey.pc = "returned" => JourneyReturned)
    /\ <>[]JourneyReturned

\* Two producers' samples returned interleaved.
C26_Witness ==
    /\ JourneyReturned
    /\ journey.producers = MaxProducers
    /\ \E j, k, l \in 1..Len(journey.samples) :
           /\ j < k
           /\ k < l
           /\ journey.samples[j].fut_name = journey.samples[l].fut_name
           /\ journey.samples[j].fut_name # journey.samples[k].fut_name

====
